---------------------------- MODULE Spec2Model ----------------------------
(***************************************************************************)
(* Model of the calculator of src/src/main.rs: the lexer                   *)
(* (ParsingToken::tokenize), the tree builder (Token::new), the operation  *)
(* registry (Function) and the evaluator (Token::compute), driven as main  *)
(* drives them: text -> tokens -> tree -> value, the first failure ending  *)
(* the run.                                                                *)
(*                                                                         *)
(* Text is a sequence of one-character strings.  Indices named i, index,   *)
(* parenthesis_start are the 0-based indices of the source; the character  *)
(* at source index i is input[i + 1].                                      *)
(*                                                                         *)
(* An f64 is a record [k, n, d].  k = "fin" is the double nearest to the   *)
(* rational n/d (in lowest terms, d > 0); +0.0 is Fin(0, 1) and -0.0 is    *)
(* NZero.  "inf", "ninf" and "nan" are the IEEE-754 specials.  "out" is a  *)
(* double the model does not track: the result of an operation whose       *)
(* operand is not exactly n/d (d is no power of two), whose exact result   *)
(* leaves the range Cap, or of a powf the model does not compute.  The     *)
(* four basic operations are correctly rounded, so on exactly represented  *)
(* operands the double they return is the one nearest to the exact         *)
(* rational result, which is what Fin denotes.                             *)
(***************************************************************************)
EXTENDS Integers, Sequences, FiniteSets, TLC

\* ------------------------------------------------------------------ bounds
MaxLen == 3
Cap == 10000

\* ------------------------------------------------------------- f64 values
Abs(x) == IF x < 0 THEN -x ELSE x

RECURSIVE Gcd(_, _)
Gcd(a, b) == IF b = 0 THEN a ELSE Gcd(b, a % b)

Fin(n, d) ==
    LET g == Gcd(Abs(n), Abs(d))
        s == IF d < 0 THEN -1 ELSE 1
    IN  [k |-> "fin", n |-> (s * n) \div g, d |-> (s * d) \div g]

Zero  == [k |-> "fin", n |-> 0, d |-> 1]
One   == [k |-> "fin", n |-> 1, d |-> 1]
NZero == [k |-> "nzero", n |-> 0, d |-> 1]
Inf   == [k |-> "inf", n |-> 0, d |-> 1]
NInf  == [k |-> "ninf", n |-> 0, d |-> 1]
NaN   == [k |-> "nan", n |-> 0, d |-> 1]
Out   == [k |-> "out", n |-> 0, d |-> 1]

RECURSIVE IsPow2(_)
IsPow2(d) == IF d <= 1 THEN d = 1 ELSE d % 2 = 0 /\ IsPow2(d \div 2)

InRange(n, d) == Abs(n) <= Cap /\ d <= Cap

\* the double is exactly the rational the record names
IsExact(x) ==
    \/ x.k = "nzero"
    \/ x.k = "fin" /\ IsPow2(x.d) /\ InRange(x.n, x.d)

IsTracked(x) == x.k \in {"inf", "ninf", "nan"} \/ IsExact(x)
IsFinite(x) == x.k \in {"fin", "nzero"}
IsZero(x) == IsFinite(x) /\ x.n = 0
IsNegative(x) == x.k \in {"nzero", "ninf"} \/ (x.k = "fin" /\ x.n < 0)

\* the rational n/d as a double, or Out when it leaves the tracked range
Clip(n, d) ==
    LET r == Fin(n, d) IN IF InRange(r.n, r.d) THEN r ELSE Out

SignedZero(neg) == IF neg THEN NZero ELSE Zero
SignedInf(neg) == IF neg THEN NInf ELSE Inf

\* unary minus of f64: flips the sign bit, exact on every double
Neg(x) ==
    CASE x.k = "fin"   -> IF x.n = 0 THEN NZero ELSE [x EXCEPT !.n = -x.n]
      [] x.k = "nzero" -> Zero
      [] x.k = "inf"   -> NInf
      [] x.k = "ninf"  -> Inf
      [] OTHER         -> x

FAdd(x, y) ==
    IF ~IsTracked(x) \/ ~IsTracked(y) THEN Out
    ELSE IF x.k = "nan" \/ y.k = "nan" THEN NaN
    ELSE IF x.k = "inf" THEN (IF y.k = "ninf" THEN NaN ELSE Inf)
    ELSE IF x.k = "ninf" THEN (IF y.k = "inf" THEN NaN ELSE NInf)
    ELSE IF y.k \in {"inf", "ninf"} THEN y
    ELSE IF x.k = "nzero" /\ y.k = "nzero" THEN NZero
    ELSE Clip(x.n * y.d + y.n * x.d, x.d * y.d)

FSub(x, y) == FAdd(x, Neg(y))

FMul(x, y) ==
    LET neg == IsNegative(x) # IsNegative(y) IN
    IF ~IsTracked(x) \/ ~IsTracked(y) THEN Out
    ELSE IF x.k = "nan" \/ y.k = "nan" THEN NaN
    ELSE IF ~IsFinite(x) \/ ~IsFinite(y)
         THEN (IF IsZero(x) \/ IsZero(y) THEN NaN ELSE SignedInf(neg))
    ELSE IF IsZero(x) \/ IsZero(y) THEN SignedZero(neg)
    ELSE Clip(x.n * y.n, x.d * y.d)

FDiv(x, y) ==
    LET neg == IsNegative(x) # IsNegative(y) IN
    IF ~IsTracked(x) \/ ~IsTracked(y) THEN Out
    ELSE IF x.k = "nan" \/ y.k = "nan" THEN NaN
    ELSE IF ~IsFinite(x) THEN (IF ~IsFinite(y) THEN NaN ELSE SignedInf(neg))
    ELSE IF ~IsFinite(y) THEN SignedZero(neg)
    ELSE IF IsZero(y) THEN (IF IsZero(x) THEN NaN ELSE SignedInf(neg))
    ELSE IF IsZero(x) THEN SignedZero(neg)
    ELSE Clip(x.n * y.d, x.d * y.n)

\* acc * b^e for naturals, or -1 as soon as the product leaves the range
RECURSIVE NatPow(_, _, _)
NatPow(acc, b, e) ==
    IF e = 0 THEN acc
    ELSE IF b = 1 THEN acc
    ELSE IF acc * b > Cap THEN -1
    ELSE NatPow(acc * b, b, e - 1)

\* f64::powf.  Tracked: the cases C99 pow fixes (x^0 = 1, 1^y = 1, powers
\* of zero) and an integer power of an exact double whose result is exact.
FPow(x, y) ==
    IF y.k = "out" \/ (y.k = "fin" /\ ~IsExact(y)) THEN Out
    ELSE IF IsZero(y) THEN One
    ELSE IF x = One THEN One
    ELSE IF ~IsTracked(x) THEN Out
    ELSE IF x.k = "nan" \/ y.k = "nan" THEN NaN
    ELSE IF ~IsFinite(x) \/ ~IsFinite(y) \/ y.d # 1 THEN Out
    ELSE LET e == Abs(y.n)
             odd == e % 2 = 1
             neg == IsNegative(x) /\ odd
         IN  IF IsZero(x)
             THEN (IF y.n > 0 THEN SignedZero(neg) ELSE SignedInf(neg))
             ELSE LET pn == NatPow(1, Abs(x.n), e)
                      pd == NatPow(1, x.d, e)
                      s == IF neg THEN -1 ELSE 1
                  IN  IF pn = -1 \/ pd = -1 THEN Out
                      ELSE IF y.n > 0 THEN Fin(s * pn, pd)
                      ELSE IF IsPow2(pn) THEN Fin(s * pd, pn)
                      ELSE Out


\* ------------------------------------------------------- ParsingError
NoError == [error |-> "", indexed |-> FALSE, base |-> <<>>, index |-> 0]

indexed(error, base, index) ==
    [error |-> error, indexed |-> TRUE, base |-> base, index |-> index]

not_indexed(error) ==
    [error |-> error, indexed |-> FALSE, base |-> <<>>, index |-> 0]

\* ----------------------------------------------------------- Operator
Operators == {"Add", "Subtract", "Multiply", "Divide", "Pow", "Inverse"}

count(o) == IF o = "Inverse" THEN 1 ELSE 2

\* variant: the ranks of the additive and multiplicative operators exchanged
priority_AdditiveAboveMultiplicative(o) ==
    CASE o \in {"Add", "Subtract"}    -> 2
      [] o \in {"Multiply", "Divide"} -> 1
      [] o = "Pow"                    -> 3
      [] o = "Inverse"                -> 4

priority(o) ==
    CASE o \in {"Add", "Subtract"}    -> 1
      [] o \in {"Multiply", "Divide"} -> 2
      [] o = "Pow"                    -> 3
      [] o = "Inverse"                -> 4

\* ------------------------------------------------------- ParsingToken
NumberTok(v) == [type |-> "Number", value |-> v]
OperatorTok(o) == [type |-> "Operator", op |-> o]
ParenthesisTok(ts) == [type |-> "Parenthesis", tokens |-> ts]

Digits == {"0", "1", "2", "3", "4", "5", "6", "7", "8", "9"}

DigitValue(c) ==
    CASE c = "0" -> 0 [] c = "1" -> 1 [] c = "2" -> 2 [] c = "3" -> 3
      [] c = "4" -> 4 [] c = "5" -> 5 [] c = "6" -> 6 [] c = "7" -> 7
      [] c = "8" -> 8 [] c = "9" -> 9

\* the natural number a string of decimal digits denotes ("" is 0)
RECURSIVE DigitsValue(_)
DigitsValue(ds) ==
    IF ds = <<>> THEN 0
    ELSE 10 * DigitsValue(SubSeq(ds, 1, Len(ds) - 1)) + DigitValue(ds[Len(ds)])

RECURSIVE Pow10(_)
Pow10(k) == IF k = 0 THEN 1 ELSE 10 * Pow10(k - 1)

\* str::parse::<f64> of int_part ++ "." ++ float_part, both digit strings:
\* "3." and ".5" parse, the lone "." does not
build_number(int_part, float_part) ==
    IF int_part = <<>> /\ float_part = <<>>
    THEN [ok |-> FALSE, value |-> Zero, error |-> "Invalid number"]
    ELSE [ok |-> TRUE,
          value |-> Fin(DigitsValue(int_part) * Pow10(Len(float_part))
                           + DigitsValue(float_part),
                        Pow10(Len(float_part))),
          error |-> ""]

\* the locals of tokenize at its entry, and err: the Err it has returned
InitScan ==
    [tokens |-> <<>>, is_float |-> FALSE, is_parsing_parentesis |-> FALSE,
     current_number |-> <<>>, current_float |-> <<>>,
     parenthesis_depth |-> 0, parenthesis_start |-> 0, err |-> NoError]

LastIsParenthesis(tokens) ==
    Len(tokens) > 0 /\ tokens[Len(tokens)].type = "Parenthesis"

compute_number(s, input, index) ==
    IF LastIsParenthesis(s.tokens) THEN s
    ELSE LET n == build_number(s.current_number, s.current_float) IN
         IF ~n.ok THEN [s EXCEPT !.err = indexed(n.error, input, index)]
         ELSE [s EXCEPT !.tokens = Append(@, NumberTok(n.value)),
                        !.current_number = <<>>,
                        !.current_float = <<>>,
                        !.is_float = FALSE]

\* the arms '+', '*', '/', '^'
ScanOperator(s, input, i, o) ==
    IF s.is_parsing_parentesis THEN s
    ELSE LET r == compute_number(s, input, i) IN
         IF r.err # NoError THEN r
         ELSE [r EXCEPT !.tokens = Append(@, OperatorTok(o))]

\* variant: no Multiply is pushed for a digit that follows a Parenthesis
ScanDigit_NoImplicitMultiply(s, c) ==
    IF s.is_parsing_parentesis THEN s
    ELSE IF s.is_float
    THEN [s EXCEPT !.current_float = Append(@, c)]
    ELSE [s EXCEPT !.current_number = Append(@, c)]

ScanDigit(s, c) ==
    IF s.is_parsing_parentesis THEN s
    ELSE LET t == IF LastIsParenthesis(s.tokens)
                  THEN Append(s.tokens, OperatorTok("Multiply"))
                  ELSE s.tokens
         IN  IF s.is_float
             THEN [s EXCEPT !.tokens = t, !.current_float = Append(@, c)]
             ELSE [s EXCEPT !.tokens = t, !.current_number = Append(@, c)]

ScanDot(s, input, i) ==
    IF s.is_parsing_parentesis THEN s
    ELSE IF s.is_float
    THEN [s EXCEPT !.err = indexed("Invalid number", input, i)]
    ELSE [s EXCEPT !.current_number = IF @ = <<>> THEN <<"0">> ELSE @,
                   !.is_float = TRUE]

\* variant: a `-` that follows a Parenthesis is read as Subtract
ScanMinus_ByPreviousToken(s, input, i) ==
    IF s.is_parsing_parentesis THEN s
    ELSE IF s.current_number = <<>> /\ ~LastIsParenthesis(s.tokens)
    THEN [s EXCEPT !.tokens = Append(@, OperatorTok("Inverse"))]
    ELSE LET r == compute_number(s, input, i) IN
         IF r.err # NoError THEN r
         ELSE [r EXCEPT !.tokens = Append(@, OperatorTok("Subtract"))]

ScanMinus(s, input, i) ==
    IF s.is_parsing_parentesis THEN s
    ELSE IF s.current_number = <<>>
    THEN [s EXCEPT !.tokens = Append(@, OperatorTok("Inverse"))]
    ELSE LET r == compute_number(s, input, i) IN
         IF r.err # NoError THEN r
         ELSE [r EXCEPT !.tokens = Append(@, OperatorTok("Subtract"))]

ScanOpen(s, input, i) ==
    LET r == IF s.current_number # <<>>
             THEN LET q == compute_number(s, input, i) IN
                  IF q.err # NoError THEN q
                  ELSE [q EXCEPT !.tokens = Append(@, OperatorTok("Multiply"))]
             ELSE s
    IN  IF r.err # NoError THEN r
        ELSE [r EXCEPT
                !.parenthesis_start = IF r.parenthesis_depth = 0 THEN i ELSE @,
                !.is_parsing_parentesis =
                    IF r.parenthesis_depth = 0 THEN TRUE ELSE @,
                !.parenthesis_depth = @ + 1]

RECURSIVE tokenize(_)

ScanClose(s, input, i) ==
    LET r == [s EXCEPT !.parenthesis_depth = @ - 1] IN
    IF r.parenthesis_depth # 0 THEN r
    ELSE IF r.parenthesis_start + 1 = i
    THEN [r EXCEPT !.err = indexed("Empty parenthesis", input, i - 1)]
    ELSE LET inner == tokenize(SubSeq(input, r.parenthesis_start + 2, i)) IN
         IF inner.err # NoError
         THEN [r EXCEPT !.is_parsing_parentesis = FALSE, !.err = inner.err]
         ELSE [r EXCEPT !.is_parsing_parentesis = FALSE,
                        !.tokens = Append(@, ParenthesisTok(inner.tokens))]

\* variant: the last arm skips the character inside a parenthesis group, as
\* the other arms do, and leaves it to the recursive call
ScanChar_SkipsInGroup(s, input, i) ==
    LET c == input[i + 1] IN
    CASE c \in Digits -> ScanDigit(s, c)
      [] c = "."      -> ScanDot(s, input, i)
      [] c = "+"      -> ScanOperator(s, input, i, "Add")
      [] c = "-"      -> ScanMinus(s, input, i)
      [] c = "*"      -> ScanOperator(s, input, i, "Multiply")
      [] c = "/"      -> ScanOperator(s, input, i, "Divide")
      [] c = "^"      -> ScanOperator(s, input, i, "Pow")
      [] c = "("      -> ScanOpen(s, input, i)
      [] c = ")"      -> ScanClose(s, input, i)
      [] c = " "      -> s
      [] OTHER        -> IF s.is_parsing_parentesis THEN s
                         ELSE [s EXCEPT !.err =
                                  indexed("Invalid character", input, i)]

\* one iteration of the for loop of tokenize, on the character at index i
ScanChar(s, input, i) ==
    LET c == input[i + 1] IN
    CASE c \in Digits -> ScanDigit(s, c)
      [] c = "."      -> ScanDot(s, input, i)
      [] c = "+"      -> ScanOperator(s, input, i, "Add")
      [] c = "-"      -> ScanMinus(s, input, i)
      [] c = "*"      -> ScanOperator(s, input, i, "Multiply")
      [] c = "/"      -> ScanOperator(s, input, i, "Divide")
      [] c = "^"      -> ScanOperator(s, input, i, "Pow")
      [] c = "("      -> ScanOpen(s, input, i)
      [] c = ")"      -> ScanClose(s, input, i)
      [] c = " "      -> s
      [] OTHER        -> [s EXCEPT !.err = indexed("Invalid character", input, i)]

\* variant: only a positive depth counts as an open parenthesis
ScanEnd_OnlyPositiveDepth(s, input) ==
    IF s.parenthesis_depth > 0
    THEN [s EXCEPT !.err =
             indexed("Parenthesis not closed", input, Len(input) - 1)]
    ELSE IF s.current_number # <<>>
    THEN LET n == build_number(s.current_number, s.current_float) IN
         IF ~n.ok
         THEN [s EXCEPT !.err = indexed("Invalid number", input, Len(input))]
         ELSE [s EXCEPT !.tokens = Append(@, NumberTok(n.value))]
    ELSE s

\* the code after the loop: the depth check and the last pending number
ScanEnd(s, input) ==
    IF s.parenthesis_depth # 0
    THEN [s EXCEPT !.err =
             indexed("Parenthesis not closed", input, Len(input) - 1)]
    ELSE IF s.current_number # <<>>
    THEN LET n == build_number(s.current_number, s.current_float) IN
         IF ~n.ok
         THEN [s EXCEPT !.err = indexed("Invalid number", input, Len(input))]
         ELSE [s EXCEPT !.tokens = Append(@, NumberTok(n.value))]
    ELSE s

\* the for loop from index i on, stopping at the first Err
RECURSIVE ScanFrom(_, _, _)
ScanFrom(s, input, i) ==
    IF i >= Len(input) \/ s.err # NoError THEN s
    ELSE ScanFrom(ScanChar(s, input, i), input, i + 1)

\* ParsingToken::tokenize: Ok(tokens) when err = NoError, else Err(err)
tokenize(input) ==
    LET s == ScanFrom(InitScan, input, 0) IN
    IF s.err # NoError THEN s ELSE ScanEnd(s, input)

\* ----------------------------------------------------------- Function
\* Function::new; the fn pointer is named by the closure it points to
Function_new(signature, arguments_count, function) ==
    [signature |-> signature, arguments_count |-> arguments_count,
     function |-> function]

add      == Function_new("add", 2, "add")
subtract == Function_new("sub", 2, "subtract")
multiply == Function_new("mul", 2, "multiply")
divide   == Function_new("div", 2, "divide")
inverse  == Function_new("inv", 1, "inverse")
pow      == Function_new("pow", 2, "pow")

\* variant: Inverse, which shares the glyph of Subtract, resolved to sub
from_operator_InverseAsSubtract(operator) ==
    CASE operator = "Add"      -> add
      [] operator = "Subtract" -> subtract
      [] operator = "Multiply" -> multiply
      [] operator = "Divide"   -> divide
      [] operator = "Pow"      -> pow
      [] operator = "Inverse"  -> subtract

from_operator(operator) ==
    CASE operator = "Add"      -> add
      [] operator = "Subtract" -> subtract
      [] operator = "Multiply" -> multiply
      [] operator = "Divide"   -> divide
      [] operator = "Pow"      -> pow
      [] operator = "Inverse"  -> inverse

\* the closures behind the fn pointers, on a vector long enough for them
Apply(function, arguments) ==
    CASE function = "add"      -> FAdd(arguments[1], arguments[2])
      [] function = "subtract" -> FSub(arguments[1], arguments[2])
      [] function = "multiply" -> FMul(arguments[1], arguments[2])
      [] function = "divide"   -> FDiv(arguments[1], arguments[2])
      [] function = "inverse"  -> Neg(arguments[1])
      [] function = "pow"      -> FPow(arguments[1], arguments[2])

call(f, arguments) ==
    IF Len(arguments) # f.arguments_count
    THEN [ok |-> FALSE, value |-> Zero,
          error |-> "Invalid number of arguments for function"]
    ELSE [ok |-> TRUE, value |-> Apply(f.function, arguments), error |-> ""]

\* -------------------------------------------------------------- Token
NumberNode(n) == [type |-> "Number", value |-> n]
OperatorNode(f, arguments) ==
    [type |-> "Operator", function |-> f, arguments |-> arguments]

NoLowest == [some |-> FALSE, priority |-> 0, index |-> 0]

\* variant: <= for <, which keeps the rightmost operator of the lowest rank
LowestStep_KeepsRightmost(acc, t, i) ==
    IF t.type # "Operator" THEN acc
    ELSE IF ~acc.some
    THEN [some |-> TRUE, priority |-> priority(t.op), index |-> i]
    ELSE IF priority(t.op) <= acc.priority
    THEN [some |-> TRUE, priority |-> priority(t.op), index |-> i]
    ELSE acc

\* the body of the loop that looks for the operator to split at
LowestStep(acc, t, i) ==
    IF t.type # "Operator" THEN acc
    ELSE IF ~acc.some
    THEN [some |-> TRUE, priority |-> priority(t.op), index |-> i]
    ELSE IF priority(t.op) < acc.priority
    THEN [some |-> TRUE, priority |-> priority(t.op), index |-> i]
    ELSE acc

\* variant: the loop runs over the tokens from the last to the first
RECURSIVE LowestDownFrom(_, _, _)
LowestDownFrom(input, i, acc) ==
    IF i < 0 THEN acc
    ELSE LowestDownFrom(input, i - 1, LowestStep(acc, input[i + 1], i))

LowestFrom_Reversed(input, i, acc) == LowestDownFrom(input, Len(input) - 1, acc)

\* (lowest_priority, lowest_priority_index) after the loop has run from i
RECURSIVE LowestFrom(_, _, _)
LowestFrom(input, i, acc) ==
    IF i >= Len(input) THEN acc
    ELSE LowestFrom(input, i + 1, LowestStep(acc, input[i + 1], i))

TreeErr(e) == [err |-> e, tree |-> NumberNode(Zero)]
TreeOk(t) == [err |-> NoError, tree |-> t]

UnaryNode(o, right) ==
    IF right.err # NoError THEN right
    ELSE TreeOk(OperatorNode(from_operator(o), <<right.tree>>))

BinaryNode(o, left, right) ==
    IF left.err # NoError THEN left
    ELSE IF right.err # NoError THEN right
    ELSE TreeOk(OperatorNode(from_operator(o), <<left.tree, right.tree>>))

\* Token::new: Ok(tree) when err = NoError, else Err(err)
RECURSIVE Token_new(_)
Token_new(input) ==
    IF Len(input) = 1
    THEN CASE input[1].type = "Number" -> TreeOk(NumberNode(input[1].value))
           [] input[1].type = "Parenthesis" -> Token_new(input[1].tokens)
           [] OTHER -> TreeErr(not_indexed("Invalid token, expected number"))
    ELSE LET low == LowestFrom(input, 0, NoLowest) IN
         IF ~low.some
         THEN TreeErr(not_indexed(
                  "There are many numbers in the input, expected operator"))
         ELSE LET t == input[low.index + 1] IN
              IF t.type # "Operator"
              THEN TreeErr(not_indexed("Invalid token, expected operator"))
              ELSE CASE count(t.op) = 1 ->
                          UnaryNode(t.op,
                              Token_new(SubSeq(input, low.index + 2, Len(input))))
                     [] count(t.op) = 2 ->
                          BinaryNode(t.op,
                              Token_new(SubSeq(input, 1, low.index)),
                              Token_new(SubSeq(input, low.index + 2, Len(input))))
                     [] OTHER ->
                          TreeErr(not_indexed(
                              "Operator with more than 2 arguments are not supported"))

ValueErr(e) == [ok |-> FALSE, value |-> Zero, error |-> e]

\* Token::compute, and the operands collected left to right, the first
\* Err among them ending the evaluation
RECURSIVE compute(_), ComputeAll(_, _, _)
ComputeAll(arguments, i, vs) ==
    IF i > Len(arguments) THEN [ok |-> TRUE, values |-> vs, error |-> ""]
    ELSE LET r == compute(arguments[i]) IN
         IF ~r.ok THEN [ok |-> FALSE, values |-> vs, error |-> r.error]
         ELSE ComputeAll(arguments, i + 1, Append(vs, r.value))

compute(t) ==
    IF t.type = "Number" THEN [ok |-> TRUE, value |-> t.value, error |-> ""]
    ELSE LET a == ComputeAll(t.arguments, 1, <<>>) IN
         IF ~a.ok THEN ValueErr(a.error)
         ELSE call(t.function, a.values)

\* ------------------------------------------------------------- inputs
Alphabet == {"0", "1", "2", ".", "+", "-", "*", "/", "^", "(", ")", " ", "&"}

Strings == UNION {[1..n -> Alphabet] : n \in 0..MaxLen}

Numerals ==
    {<<"1">>, <<"2">>, <<"3">>, <<"1", "2">>, <<"1", ".", "5">>, <<".", "5">>}

BinarySymbols == {"+", "-", "*", "/", "^"}

\* a p b q c
Chains ==
    {a \o <<p>> \o b \o <<q>> \o c :
        a \in Numerals, b \in Numerals, c \in Numerals,
        p \in BinarySymbols, q \in BinarySymbols}

\* n(a p b) and (a p b)n
Products ==
    {n \o <<"(">> \o a \o <<p>> \o b \o <<")">> :
        n \in Numerals, a \in Numerals, b \in Numerals, p \in BinarySymbols}
    \cup
    {<<"(">> \o a \o <<p>> \o b \o <<")">> \o n :
        n \in Numerals, a \in Numerals, b \in Numerals, p \in BinarySymbols}

DefaultInput ==
    <<"1", " ", "+", " ", "2", " ", "*", " ", "3", " ", "/", " ", "2", " ",
      "-", " ", "4">>

Examples ==
    {DefaultInput,
     <<"2", "^", "3", "^", "2">>,
     <<"1", " ", "-", " ", "2", " ", "-", " ", "3">>,
     <<"1", " ", "+", " ", "2", " ", "*", " ", "3">>,
     <<"(", ")">>,
     <<"(", " ", " ", " ", ")">>,
     <<"3", "(", "4", "+", "5", ")">>,
     <<"(", "1", "+", "2", ")", "3">>,
     <<"(", "1", "+", "2", ")", "-", "3">>,
     <<"1", " ", "&", " ", "2">>,
     <<"(", "1", "&", "2", ")">>,
     <<"(", "1", "+", "(", "2", "&", "3", ")", ")">>,
     <<"(", "1", "+", "2">>,
     <<"(", "(", "1", "+", "2", ")">>,
     <<"1", "+", "2", ")">>,
     <<"1", ")", "+", "(", "2">>,
     <<"(", "1", ")", ")", "(">>,
     <<"(", "1", ")", ".", "-", "2">>,
     <<"-", "(", "1", "+", "2", ")", "*", "3">>}

Inputs == Strings \cup Chains \cup Products \cup Examples

\* --------------------------------------------------------------- main
VARIABLES input, pc, i, st, built, result

vars == <<input, pc, i, st, built, result>>

Init ==
    /\ input \in Inputs
    /\ pc = "scan"
    /\ i = 0
    /\ st = InitScan
    /\ built = TreeErr(NoError)
    /\ result = ValueErr("")

\* one iteration of the for loop of tokenize(input)
Scan ==
    /\ pc = "scan"
    /\ i < Len(input)
    /\ st' = ScanChar(st, input, i)
    /\ IF st'.err # NoError
       THEN pc' = "lexer_error" /\ i' = i
       ELSE pc' = "scan" /\ i' = i + 1
    /\ UNCHANGED <<input, built, result>>

\* the end of tokenize(input), and main's match on what it returns
EndOfInput ==
    /\ pc = "scan"
    /\ i = Len(input)
    /\ st' = ScanEnd(st, input)
    /\ pc' = IF st'.err # NoError THEN "lexer_error" ELSE "build"
    /\ UNCHANGED <<input, i, built, result>>

Build ==
    /\ pc = "build"
    /\ built' = Token_new(st.tokens)
    /\ pc' = IF built'.err # NoError THEN "build_error" ELSE "compute"
    /\ UNCHANGED <<input, i, st, result>>

Compute ==
    /\ pc = "compute"
    /\ result' = compute(built.tree)
    /\ pc' = IF result'.ok THEN "printed" ELSE "compute_error"
    /\ UNCHANGED <<input, i, st, built>>

Next == Scan \/ EndOfInput \/ Build \/ Compute

Spec == Init /\ [][Next]_vars

\* ------------------------------------------- vocabulary of the claims
\* tokenize(input) has returned Ok(st.tokens)
Tokenized == pc \in {"build", "build_error", "compute", "compute_error", "printed"}

\* Token::new(st.tokens) has returned Ok(built.tree)
Built == pc \in {"compute", "compute_error", "printed"}

\* main has printed its last line
Terminal == pc \in {"lexer_error", "build_error", "compute_error", "printed"}

\* ranks, names and arities as sections 3 and 4.3 of the specification give them
Rank(o) ==
    CASE o = "Add" -> 1 [] o = "Subtract" -> 1 [] o = "Multiply" -> 2
      [] o = "Divide" -> 2 [] o = "Pow" -> 3 [] o = "Inverse" -> 4

NameOf(o) ==
    CASE o = "Add" -> "add" [] o = "Subtract" -> "sub" [] o = "Multiply" -> "mul"
      [] o = "Divide" -> "div" [] o = "Pow" -> "pow" [] o = "Inverse" -> "inv"

ArityOfName(name) == IF name = "inv" THEN 1 ELSE 2

OperatorOfSymbol(c) ==
    CASE c = "+" -> "Add" [] c = "-" -> "Subtract" [] c = "*" -> "Multiply"
      [] c = "/" -> "Divide" [] c = "^" -> "Pow"

NumeralValue(x) ==
    CASE x = <<"1">> -> Fin(1, 1)
      [] x = <<"2">> -> Fin(2, 1)
      [] x = <<"3">> -> Fin(3, 1)
      [] x = <<"1", "2">> -> Fin(12, 1)
      [] x = <<"1", ".", "5">> -> Fin(3, 2)
      [] x = <<".", "5">> -> Fin(1, 2)

Lit(v) == [type |-> "Number", value |-> v]
App(name, operands) ==
    [type |-> "Operator",
     function |-> [signature |-> name, arguments_count |-> ArityOfName(name),
                   function |-> CASE name = "add" -> "add"
                                  [] name = "sub" -> "subtract"
                                  [] name = "mul" -> "multiply"
                                  [] name = "div" -> "divide"
                                  [] name = "pow" -> "pow"
                                  [] name = "inv" -> "inverse"],
     arguments |-> operands]

IsOperatorAt(tokens, j) == tokens[j + 1].type = "Operator"
RankAt(tokens, j) == Rank(tokens[j + 1].op)
OperatorIndices(tokens) == {j \in 0..(Len(tokens) - 1) : IsOperatorAt(tokens, j)}

\* the split point: what the loop of Token::new has found in st.tokens
SplitOf(tokens) == LowestFrom(tokens, 0, NoLowest)

In_2pow3pow2 == <<"2", "^", "3", "^", "2">>
In_1sub2sub3 == <<"1", " ", "-", " ", "2", " ", "-", " ", "3">>
In_1add2mul3 == <<"1", " ", "+", " ", "2", " ", "*", " ", "3">>
In_Empty == <<"(", ")">>
In_Spaces == <<"(", " ", " ", " ", ")">>
In_3group == <<"3", "(", "4", "+", "5", ")">>
In_group3 == <<"(", "1", "+", "2", ")", "3">>
In_groupMinus3 == <<"(", "1", "+", "2", ")", "-", "3">>
In_1amp2 == <<"1", " ", "&", " ", "2">>
In_Unclosed == <<"(", "1", "+", "2">>

\* ------------------------------------------------------------------ C1
\* C1 (as stated): the run on "2^3^2" prints 64.
C1_Yields64 ==
    (input = In_2pow3pow2 /\ Terminal)
        => (pc = "printed" /\ result.value = Fin(64, 1))

\* C1 (amended): on "2^3^2" the split is at the first `^` (token index 1),
\* whose right operand is the tree of 3^2: the tree is pow(2, pow(3, 2)) and
\* the run prints 512, not (2^3)^2 = 64.
C1_Yields512 ==
    (input = In_2pow3pow2 /\ Terminal)
        => /\ pc = "printed"
           /\ SplitOf(st.tokens).index = 1
           /\ built.tree = App("pow", <<Lit(Fin(2, 1)),
                                  App("pow", <<Lit(Fin(3, 1)), Lit(Fin(2, 1))>>)>>)
           /\ result.value = Fin(512, 1)
           /\ result.value # Fin(64, 1)

C1_Witness == input = In_2pow3pow2 /\ pc = "printed" /\ result.value = Fin(512, 1)

\* ------------------------------------------------------------------ C2
\* C2: the split point of a token sequence has no operator of its own rank
\* to its left (a later equal-rank operator never replaces the leftmost);
\* for all numerals a, b, c the run on "a-b-c" builds sub(a, sub(b, c)) and
\* prints a - (b - c); the run on "1 - 2 - 3" prints 2, not -4.
C2_LeftmostSplit ==
    /\ Tokenized =>
          LET low == SplitOf(st.tokens) IN
          low.some =>
              /\ low.index \in OperatorIndices(st.tokens)
              /\ \A j \in OperatorIndices(st.tokens) :
                    j < low.index => RankAt(st.tokens, j) # RankAt(st.tokens, low.index)
    /\ (Terminal /\ input \in Chains) =>
          \A a \in Numerals, b \in Numerals, c \in Numerals :
          input = a \o <<"-">> \o b \o <<"-">> \o c
              => /\ pc = "printed"
                 /\ built.tree = App("sub", <<Lit(NumeralValue(a)),
                        App("sub", <<Lit(NumeralValue(b)), Lit(NumeralValue(c))>>)>>)
                 /\ result.value = FSub(NumeralValue(a),
                                        FSub(NumeralValue(b), NumeralValue(c)))
    /\ (input = In_1sub2sub3 /\ Terminal)
          => (pc = "printed" /\ result.value = Fin(2, 1) /\ result.value # Fin(-4, 1))

C2_Witness ==
    /\ input = <<"3">> \o <<"-">> \o <<"1", ".", "5">> \o <<"-">> \o <<"1", "2">>
    /\ pc = "printed"
    /\ SplitOf(st.tokens).index = 1
    /\ result.value = Fin(27, 2)

\* ------------------------------------------------------------------ C4
\* C4: the root of the tree built from more than one token is the operation
\* of an operator whose rank no operator of the sequence undercuts; for all
\* numerals a, b, c the run on "a+b*c" prints a + (b * c) and the run on
\* "a*b+c" prints (a * b) + c; the run on "1 + 2 * 3" prints 7.
C4_LowestRankIsRoot ==
    /\ (Built /\ Len(st.tokens) > 1) =>
          /\ built.tree.type = "Operator"
          /\ \E k \in OperatorIndices(st.tokens) :
                /\ built.tree.function.signature = NameOf(st.tokens[k + 1].op)
                /\ \A j \in OperatorIndices(st.tokens) :
                      RankAt(st.tokens, j) >= RankAt(st.tokens, k)
    /\ (Terminal /\ input \in Chains) =>
          \A a \in Numerals, b \in Numerals, c \in Numerals :
          /\ input = a \o <<"+">> \o b \o <<"*">> \o c
                => /\ pc = "printed"
                   /\ result.value = FAdd(NumeralValue(a),
                                          FMul(NumeralValue(b), NumeralValue(c)))
          /\ input = a \o <<"*">> \o b \o <<"+">> \o c
                => /\ pc = "printed"
                   /\ result.value = FAdd(FMul(NumeralValue(a), NumeralValue(b)),
                                          NumeralValue(c))
    /\ (input = In_1add2mul3 /\ Terminal)
          => (pc = "printed" /\ result.value = Fin(7, 1))

C4_Witness ==
    /\ input = <<"2">> \o <<"*">> \o <<"3">> \o <<"+">> \o <<"1", ".", "5">>
    /\ pc = "printed"
    /\ built.tree.function.signature = "add"
    /\ result.value = Fin(15, 2)

\* ------------------------------------------------------------------ C3
\* C3: the runs on "()" and on "(   )" both end in the lexer's
\* "Empty parenthesis" error, and tokenize returns no token sequence.
C3_EmptyParenthesis ==
    (input \in {In_Empty, In_Spaces} /\ Terminal)
        => (pc = "lexer_error" /\ st.err.error = "Empty parenthesis")

\* ------------------------------------------------------------------ C5
\* C5 (as stated): "3(4+5)" and "(1+2)3" both tokenize to operand, Multiply,
\* operand and both runs print 27.
C5_BothYield27 ==
    (input \in {In_3group, In_group3} /\ Terminal)
        => /\ pc = "printed"
           /\ Len(st.tokens) = 3
           /\ st.tokens[2] = OperatorTok("Multiply")
           /\ result.value = Fin(27, 1)

\* C5 (amended): for all numerals n, a, b and binary symbols p, "n(apb)"
\* tokenizes to Number(n), Multiply, Group[a, p, b] and "(apb)n" to
\* Group[a, p, b], Multiply, Number(n), with exactly one Multiply, and both
\* runs print n * (a p b); "3(4+5)" prints 27 and "(1+2)3" prints 9.
C5_ImplicitMultiply ==
    /\ (Tokenized /\ input \in Products) =>
          \A n \in Numerals, a \in Numerals, b \in Numerals, p \in BinarySymbols :
          LET group == ParenthesisTok(<<NumberTok(NumeralValue(a)),
                                        OperatorTok(OperatorOfSymbol(p)),
                                        NumberTok(NumeralValue(b))>>)
              inner == Apply(from_operator(OperatorOfSymbol(p)).function,
                             <<NumeralValue(a), NumeralValue(b)>>)
          IN  /\ input = n \o <<"(">> \o a \o <<p>> \o b \o <<")">> =>
                 /\ st.tokens = <<NumberTok(NumeralValue(n)),
                                  OperatorTok("Multiply"), group>>
                 /\ Terminal =>
                       (pc = "printed"
                        /\ result.value = FMul(NumeralValue(n), inner))
              /\ input = <<"(">> \o a \o <<p>> \o b \o <<")">> \o n =>
                 /\ st.tokens = <<group, OperatorTok("Multiply"),
                                  NumberTok(NumeralValue(n))>>
                 /\ Terminal =>
                       (pc = "printed"
                        /\ result.value = FMul(inner, NumeralValue(n)))
    /\ (input = In_3group /\ Terminal)
          => (pc = "printed" /\ result.value = Fin(27, 1))
    /\ (input = In_group3 /\ Terminal)
          => (pc = "printed" /\ result.value = Fin(9, 1))

C5_Witness ==
    /\ input = In_group3
    /\ pc = "printed"
    /\ st.tokens[2] = OperatorTok("Multiply")
    /\ result.value = Fin(9, 1)

\* ------------------------------------------------------------------ C6
\* C6: when the loop reads a `-` at depth 0, it appends Inverse and nothing
\* else if current_number is empty; otherwise it runs the number flush (a
\* Number of the pending buffers is appended and the buffers reset, unless
\* the last token is a Parenthesis, where the flush does nothing) and
\* appends Subtract; the kind of the previous token does not enter.  The run
\* on "(1+2)-3" tokenizes to Group[1, Add, 2], Inverse, Number(3).
C6_MinusStep ==
    (pc = "scan" /\ i < Len(input) /\ input[i + 1] = "-"
        /\ st.parenthesis_depth = 0)
    => IF st.current_number = <<>>
       THEN st' = [st EXCEPT !.tokens = Append(@, OperatorTok("Inverse"))]
       ELSE IF LastIsParenthesis(st.tokens)
       THEN st' = [st EXCEPT !.tokens = Append(@, OperatorTok("Subtract"))]
       ELSE /\ Len(st'.tokens) = Len(st.tokens) + 2
            /\ SubSeq(st'.tokens, 1, Len(st.tokens)) = st.tokens
            /\ st'.tokens[Len(st.tokens) + 1].type = "Number"
            /\ st'.tokens[Len(st.tokens) + 2] = OperatorTok("Subtract")
            /\ st'.current_number = <<>> /\ st'.current_float = <<>>
            /\ ~st'.is_float

C6_MinusExample ==
    (input = In_groupMinus3 /\ Tokenized)
        => st.tokens = <<ParenthesisTok(<<NumberTok(Fin(1, 1)), OperatorTok("Add"),
                                          NumberTok(Fin(2, 1))>>),
                         OperatorTok("Inverse"), NumberTok(Fin(3, 1))>>

C6_MinusByBufferOnly == [][C6_MinusStep]_vars /\ []C6_MinusExample

C6_Witness ==
    /\ pc = "scan" /\ i > 0 /\ input[i] = "-"
    /\ Len(st.tokens) >= 2
    /\ st.tokens[Len(st.tokens)] = OperatorTok("Inverse")
    /\ st.tokens[Len(st.tokens) - 1].type = "Parenthesis"

\* ------------------------------------------------------------------ C7
RECURSIVE ArityHolds(_)
ArityHolds(t) ==
    t.type = "Operator" =>
        /\ Len(t.arguments) = t.function.arguments_count
        /\ t.function.arguments_count = ArityOfName(t.function.signature)
        /\ \A k \in 1..Len(t.arguments) : ArityHolds(t.arguments[k])

\* C7: every Operator node of a tree Token::new returns has as many operands
\* as the arity of its function, which is 1 for inv and 2 otherwise, and the
\* root carries the function of the operator it was built from; compute on
\* such a tree never returns the arity error.
C7_ArityInvariant ==
    /\ Built => ArityHolds(built.tree)
    /\ (Built /\ Len(st.tokens) > 1) =>
          LET o == st.tokens[SplitOf(st.tokens).index + 1].op IN
          /\ built.tree.function.signature = NameOf(o)
          /\ Len(built.tree.arguments) = (IF o = "Inverse" THEN 1 ELSE 2)
    /\ pc # "compute_error"

C7_Witness ==
    /\ pc = "printed"
    /\ built.tree.type = "Operator"
    /\ built.tree.function.signature = "mul"
    /\ Len(built.tree.arguments) = 2
    /\ built.tree.arguments[1].type = "Operator"
    /\ built.tree.arguments[1].function.signature = "inv"
    /\ Len(built.tree.arguments[1].arguments) = 1
    /\ result.value = Fin(-9, 1)

\* ------------------------------------------------------------------ C8
ValidCharacters ==
    Digits \cup {".", "+", "-", "*", "/", "^", "(", ")", " "}

InvalidIndices(text) ==
    {j \in 0..(Len(text) - 1) : text[j + 1] \notin ValidCharacters}

FirstInvalid(text) ==
    CHOOSE j \in InvalidIndices(text) : \A k \in InvalidIndices(text) : j <= k

\* C8: when input has a character outside the lexer's alphabet, the scan
\* never passes the first such character and tokenize returns no tokens;
\* if the scan reaches it (no earlier failure), tokenize fails with
\* "Invalid character", base = input and index = its position, also when
\* the character is inside a parenthesis group; "1 & 2" fails at index 2.
C8_InvalidCharacter ==
    /\ InvalidIndices(input) # {} =>
          LET p == FirstInvalid(input) IN
          /\ pc \in {"scan", "lexer_error"}
          /\ i <= p
          /\ (pc = "lexer_error" /\ i = p)
                => st.err = indexed("Invalid character", input, p)
    /\ (input = In_1amp2 /\ Terminal)
          => st.err = indexed("Invalid character", In_1amp2, 2)

C8_Witness ==
    /\ pc = "lexer_error"
    /\ st.err.error = "Invalid character"
    /\ st.parenthesis_depth = 2
    /\ st.err.index = 5

\* ------------------------------------------------------------------ C9
\* C9: once the loop has run over the whole input without an error, a
\* depth counter other than 0 makes tokenize fail with "Parenthesis not
\* closed" and no tokens are returned; the run on "(1+2" fails so.
C9_ParenthesisNotClosed ==
    /\ (pc # "scan" /\ i = Len(input) /\ st.parenthesis_depth # 0)
          => (pc = "lexer_error" /\ st.err.error = "Parenthesis not closed")
    /\ (input = In_Unclosed /\ Terminal)
          => (pc = "lexer_error" /\ st.err.error = "Parenthesis not closed")

C9_Witness ==
    /\ input = In_Unclosed
    /\ pc = "lexer_error"
    /\ i = Len(input)
    /\ st.parenthesis_depth = 1
    /\ st.err.error = "Parenthesis not closed"

\* ----------------------------------------------------------------- C10
\* the depth after the first k characters: opening minus closing parentheses
Depth(text, k) ==
    Cardinality({j \in 1..k : text[j] = "("})
        - Cardinality({j \in 1..k : text[j] = ")"})

Balanced(text) ==
    /\ Depth(text, Len(text)) = 0
    /\ \A k \in 0..Len(text) : Depth(text, k) >= 0

\* C10: tokenize returns a token sequence only for an input whose
\* parentheses are balanced; ")(" and "1)+(2" end in a lexer error.
C10_OnlyBalancedAccepted ==
    /\ Tokenized => Balanced(input)
    /\ (input \in {<<")", "(">>, <<"1", ")", "+", "(", "2">>} /\ Terminal)
          => pc = "lexer_error"

\* ----------------------------------------------------------------- C11
\* the values of the Number tokens, left to right, descending into groups
RECURSIVE NumbersOf(_)
NumbersOf(tokens) ==
    IF tokens = <<>> THEN <<>>
    ELSE LET t == tokens[1]
             rest == NumbersOf(SubSeq(tokens, 2, Len(tokens)))
         IN  CASE t.type = "Number" -> <<t.value>> \o rest
               [] t.type = "Parenthesis" -> NumbersOf(t.tokens) \o rest
               [] OTHER -> rest

RECURSIVE OperatorCount(_)
OperatorCount(tokens) ==
    IF tokens = <<>> THEN 0
    ELSE LET t == tokens[1]
             rest == OperatorCount(SubSeq(tokens, 2, Len(tokens)))
         IN  CASE t.type = "Operator" -> 1 + rest
               [] t.type = "Parenthesis" -> OperatorCount(t.tokens) + rest
               [] OTHER -> rest

\* the values of the Number leaves of a tree, left to right
RECURSIVE LeavesOf(_), LeavesOfAll(_)
LeavesOfAll(trees) ==
    IF trees = <<>> THEN <<>>
    ELSE LeavesOf(trees[1]) \o LeavesOfAll(SubSeq(trees, 2, Len(trees)))

LeavesOf(t) ==
    IF t.type = "Number" THEN <<t.value>> ELSE LeavesOfAll(t.arguments)

RECURSIVE NodeCount(_), NodeCountAll(_)
NodeCountAll(trees) ==
    IF trees = <<>> THEN 0
    ELSE NodeCount(trees[1]) + NodeCountAll(SubSeq(trees, 2, Len(trees)))

NodeCount(t) ==
    IF t.type = "Number" THEN 0 ELSE 1 + NodeCountAll(t.arguments)

\* C11: whenever Token::new(st.tokens) returns a tree, the Number leaves of
\* the tree, left to right, are the Number tokens of st.tokens, left to
\* right and descending into groups, and the tree has one Operator node per
\* Operator token.
C11_NoOperandDiscarded ==
    Built =>
        /\ LeavesOf(built.tree) = NumbersOf(st.tokens)
        /\ NodeCount(built.tree) = OperatorCount(st.tokens)

=============================================================================
